---- MODULE Spec2Model ----
(***************************************************************************)
(* A2A router (src/a2a.py) and its two agent services                      *)
(* (src/product_agent.py, src/customer_agent.py).                          *)
(*                                                                         *)
(* Text is modelled at two levels.  Strings whose characters the code      *)
(* inspects (commands, names) are tuples of one-character strings.  JSON   *)
(* documents are sequences of lexical tokens: json.dumps produces the      *)
(* token sequence of a value, json.loads parses a token sequence.          *)
(***************************************************************************)
EXTENDS Integers, Sequences, FiniteSets, TLC

VARIABLES
    store,    \* per agent: the sqlite table and its AUTOINCREMENT counter
    issued,   \* per agent: the ids returned by the successful adds, in order
    agents,   \* router: self.agents, the discovered Agent Cards by name
    phase,    \* router: "discovering", "ready" or "exited"
    url_i,    \* router: index in agent_urls of the next URL to discover
    last,     \* the request handled last: inputs, calls made, outputs
    self,     \* the agent process under study, NoAgent for the whole system
    gets,     \* router: the GETs discover_agents has issued, with their fate
    loop,     \* router: where main's loop stands with the command it read
    reqs,     \* agent: the add requests its threads are handling
    cursor    \* agent: self.cursor, the one cursor all its requests share

vars == <<store, issued, agents, phase, url_i, last, self, gets, loop, reqs, cursor>>

(***************************************************************************)
(* Bounds                                                                  *)
(***************************************************************************)
\* largest number of rows ever inserted into one store
MaxId == 2
\* largest number of parts in the message of a task sent by an HTTP client
MaxParts == 2

Agents == {"ProductAgent", "CustomerAgent"}

\* Python None as the result of route_command
NoAgent == "None"

Max(a, b) == IF a >= b THEN a ELSE b

(***************************************************************************)
(* JSON values (Python objects): None, int, str, list, dict.               *)
(* "lit" is a str written as a literal in the program text, "fmt" a str    *)
(* built by an f-string from a template and one interpolated value,        *)
(* "text" a str that holds a serialized JSON document.                     *)
(***************************************************************************)
Null == [t |-> "null"]

Num(i) == [t |-> "int", i |-> i]

Str(s) == [t |-> "str", s |-> s]

Lit(y) == [t |-> "lit", y |-> y]

Fmt(y, arg) == [t |-> "fmt", y |-> y, arg |-> arg]

Text(toks) == [t |-> "text", toks |-> toks]

Arr(a) == [t |-> "arr", a |-> a]

Obj(f) == [t |-> "obj", f |-> f]

EmptyObj == Obj(<<>>)

\* dict.get(key, default); the caller has checked that d is a dict
Get(d, key, default) == IF key \in DOMAIN d.f THEN d.f[key] ELSE default

\* Python truthiness of a value (bool(v))
Truthy(v) ==
    CASE v.t = "null" -> FALSE
      [] v.t = "int" -> v.i # 0
      [] v.t = "str" -> v.s # <<>>
      [] v.t = "text" -> v.toks # <<>>
      [] v.t = "arr" -> v.a # <<>>
      [] v.t = "obj" -> DOMAIN v.f # {}
      [] OTHER -> TRUE

(***************************************************************************)
(* Tokens of a JSON text.  "ws" is whitespace, "junk" any run of           *)
(* characters that is not a JSON lexeme (prose around the object).         *)
(***************************************************************************)
Tok(k) == [k |-> k]

Scalar(v) == [k |-> "scalar", v |-> v]

\* the order in which the program's dict literals list their keys
KeyOrder ==
    <<"intent", "parameters",
      "status", "state", "timestamp", "action", "message",
      "customer", "product", "customers", "products", "count",
      "id", "name", "email", "description", "created_at",
      "artifacts", "type", "role", "parts", "text",
      "error", "a2a_response", "extracted_result">>

KeysOf(f) == SelectSeq(KeyOrder, LAMBDA k : k \in DOMAIN f)

RECURSIVE Dumps(_)
RECURSIVE DumpsMembers(_, _)
RECURSIVE DumpsItems(_)

\* the "key": value members of a dict, comma separated
DumpsMembers(f, keys) ==
    IF keys = <<>> THEN <<>>
    ELSE <<Scalar(Lit(Head(keys))), Tok(":")>> \o Dumps(f[Head(keys)])
         \o (IF Tail(keys) = <<>> THEN <<>>
             ELSE <<Tok(",")>> \o DumpsMembers(f, Tail(keys)))

\* the items of a list, comma separated
DumpsItems(a) ==
    IF a = <<>> THEN <<>>
    ELSE Dumps(Head(a))
         \o (IF Tail(a) = <<>> THEN <<>>
             ELSE <<Tok(",")>> \o DumpsItems(Tail(a)))

\* json.dumps
Dumps(v) ==
    CASE v.t = "obj" -> <<Tok("{")>> \o DumpsMembers(v.f, KeysOf(v.f)) \o <<Tok("}")>>
      [] v.t = "arr" -> <<Tok("[")>> \o DumpsItems(v.a) \o <<Tok("]")>>
      [] OTHER -> <<Scalar(v)>>

NoParse == [ok |-> FALSE, v |-> Null, n |-> 0]

RECURSIVE ParseValue(_, _)
RECURSIVE ParseMembers(_, _, _)
RECURSIVE ParseItems(_, _, _)

\* members of a dict from position i on, after "{" or ","
ParseMembers(toks, i, acc) ==
    IF i + 1 > Len(toks) THEN NoParse
    ELSE IF toks[i].k # "scalar" THEN NoParse
    ELSE IF toks[i].v.t # "lit" \/ toks[i + 1].k # ":" THEN NoParse
    ELSE LET val == ParseValue(toks, i + 2)
             f == (toks[i].v.y :> val.v) @@ acc
         IN  IF ~val.ok \/ val.n > Len(toks) THEN NoParse
             ELSE IF toks[val.n].k = "}"
                  THEN [ok |-> TRUE, v |-> Obj(f), n |-> val.n + 1]
             ELSE IF toks[val.n].k = ","
                  THEN ParseMembers(toks, val.n + 1, f)
             ELSE NoParse

\* items of a list from position i on, after "[" or ","
ParseItems(toks, i, acc) ==
    LET val == ParseValue(toks, i)
    IN  IF ~val.ok \/ val.n > Len(toks) THEN NoParse
        ELSE IF toks[val.n].k = "]"
             THEN [ok |-> TRUE, v |-> Arr(Append(acc, val.v)), n |-> val.n + 1]
        ELSE IF toks[val.n].k = ","
             THEN ParseItems(toks, val.n + 1, Append(acc, val.v))
        ELSE NoParse

\* one JSON value starting at position i; n is the position after it
ParseValue(toks, i) ==
    IF i > Len(toks) THEN NoParse
    ELSE IF toks[i].k = "scalar"
         THEN [ok |-> TRUE, v |-> toks[i].v, n |-> i + 1]
    ELSE IF toks[i].k = "{"
         THEN IF i + 1 <= Len(toks) /\ toks[i + 1].k = "}"
              THEN [ok |-> TRUE, v |-> EmptyObj, n |-> i + 2]
              ELSE ParseMembers(toks, i + 1, <<>>)
    ELSE IF toks[i].k = "["
         THEN IF i + 1 <= Len(toks) /\ toks[i + 1].k = "]"
              THEN [ok |-> TRUE, v |-> Arr(<<>>), n |-> i + 2]
              ELSE ParseItems(toks, i + 1, <<>>)
    ELSE NoParse

\* json.loads: whitespace between tokens is insignificant, and the whole
\* text must be one value; ok = FALSE stands for JSONDecodeError
Loads(text) ==
    LET toks == SelectSeq(text, LAMBDA tk : tk.k # "ws")
        val == ParseValue(toks, 1)
    IN  IF val.ok /\ val.n = Len(toks) + 1 THEN [ok |-> TRUE, v |-> val.v]
        ELSE [ok |-> FALSE, v |-> Null]

(***************************************************************************)
(* Character strings: tuples of one-character strings.                     *)
(***************************************************************************)
Upper ==
    <<"A", "B", "C", "D", "E", "F", "G", "H", "I", "J", "K", "L", "M",
      "N", "O", "P", "Q", "R", "S", "T", "U", "V", "W", "X", "Y", "Z">>

Lower ==
    <<"a", "b", "c", "d", "e", "f", "g", "h", "i", "j", "k", "l", "m",
      "n", "o", "p", "q", "r", "s", "t", "u", "v", "w", "x", "y", "z">>

Range(f) == {f[i] : i \in DOMAIN f}

\* the characters of a string
Chars(s) == [i \in 1..Len(s) |-> SubSeq(s, i, i)]

Whitespace == {" ", "\t", "\n"}

\* str.lower() of one character
LowerChar(c) ==
    IF c \in Range(Upper) THEN Lower[CHOOSE i \in DOMAIN Upper : Upper[i] = c]
    ELSE c

\* str.upper() of one character
UpperChar(c) ==
    IF c \in Range(Lower) THEN Upper[CHOOSE i \in DOMAIN Lower : Lower[i] = c]
    ELSE c

\* a command matched as typed
lower_kept(s) == s

\* str.lower()
lower(s) == [i \in DOMAIN s |-> LowerChar(s[i])]

\* the Python test  k in s  on strings
Contains(s, k) ==
    \E i \in 1..(Len(s) - Len(k) + 1) : SubSeq(s, i, i + Len(k) - 1) = k

\* a name taken as the reply gives it
strip_nothing(s) == s

RECURSIVE LStrip(_)
LStrip(s) ==
    IF s # <<>> /\ Head(s) \in Whitespace THEN LStrip(Tail(s)) ELSE s

RECURSIVE RStrip(_)
RStrip(s) ==
    IF s # <<>> /\ s[Len(s)] \in Whitespace THEN RStrip(SubSeq(s, 1, Len(s) - 1))
    ELSE s

\* str.strip()
strip(s) == RStrip(LStrip(s))

(***************************************************************************)
(* Agent Store: one sqlite table per agent.                                *)
(*   rows : the table, in rowid order                                      *)
(*   seq  : sqlite_sequence, the largest rowid AUTOINCREMENT ever issued   *)
(***************************************************************************)
Noun(a) == IF a = "ProductAgent" THEN "product" ELSE "customer"

Cap(a) == IF a = "ProductAgent" THEN "Product" ELSE "Customer"

SecKey(a) == IF a = "ProductAgent" THEN "description" ELSE "email"

\* CREATE TABLE IF NOT EXISTS ... on a fresh database file
EmptyStore == [rows |-> <<>>, seq |-> 0]

MaxRowid(rows) == IF rows = <<>> THEN 0 ELSE rows[Len(rows)].id

\* id INTEGER PRIMARY KEY without AUTOINCREMENT: one more than the largest
\* rowid now in the table
NextRowidReuse(st) == MaxRowid(st.rows) + 1

\* id INTEGER PRIMARY KEY AUTOINCREMENT: one more than the largest rowid
\* that was ever in the table
NextRowid(st) == Max(st.seq, MaxRowid(st.rows)) + 1

\* values the sqlite3 module can bind to a ? placeholder
Bindable(v) == v.t \notin {"arr", "obj"}

\* WHERE id = ? for the row with primary key id
IdMatches(v, id) == v.t = "int" /\ v.i = id

StoreOk(st, ret) == [st |-> st, ret |-> ret, exc |-> ""]

StoreRaise(st, exc) == [st |-> st, ret |-> 0, exc |-> exc]

\* add_customer / add_product: INSERT, commit, return cursor.lastrowid
add_row(st, name, sec) ==
    IF ~Bindable(name) \/ ~Bindable(sec) THEN StoreRaise(st, "InterfaceError")
    ELSE LET id == NextRowid(st)
             row == [id |-> id, name |-> name, sec |-> sec,
                     created_at |-> Lit("CURRENT_TIMESTAMP")]
         IN  StoreOk([rows |-> Append(st.rows, row), seq |-> id], id)

\* list_customers / list_products: SELECT, fetchall
list_rows(st) == st.rows

\* delete_customer / delete_product: DELETE, commit, return cursor.rowcount
delete_row(st, idv) ==
    IF ~Bindable(idv) THEN StoreRaise(st, "InterfaceError")
    ELSE LET kept == SelectSeq(st.rows, LAMBDA r : ~IdMatches(idv, r.id))
         IN  StoreOk([st EXCEPT !.rows = kept], Len(st.rows) - Len(kept))

\* update without the early return for an empty list of updates
NothingToUpdateSkipped(name, sec) == FALSE

\* if not updates: no field was supplied (both are None)
NothingToUpdate(name, sec) == name = Null /\ sec = Null

\* update_customer / update_product: UPDATE of the supplied fields, commit,
\* return cursor.rowcount
update_row(st, idv, name, sec) ==
    IF NothingToUpdate(name, sec) THEN StoreOk(st, 0)
    ELSE IF ~Bindable(name) \/ ~Bindable(sec) \/ ~Bindable(idv)
         THEN StoreRaise(st, "InterfaceError")
    ELSE LET upd(r) == [r EXCEPT !.name = IF name # Null THEN name ELSE @,
                                 !.sec = IF sec # Null THEN sec ELSE @]
             hit == {i \in DOMAIN st.rows : IdMatches(idv, st.rows[i].id)}
         IN  StoreOk([st EXCEPT !.rows = [i \in DOMAIN st.rows |->
                                 IF i \in hit THEN upd(st.rows[i]) ELSE st.rows[i]]],
                     Cardinality(hit))

(***************************************************************************)
(* Intent Parser and Command Dispatcher: process_command.                  *)
(***************************************************************************)
Positions(text, k) == {i \in DOMAIN text : text[i].k = k}

SetMin(S) == CHOOSE x \in S : \A y \in S : x <= y

SetMax(S) == CHOOSE x \in S : \A y \in S : x >= y

\* re.search(r'\{.*\}', text, re.DOTALL): the leftmost "{" that has a "}"
\* after it, extended greedily to the last "}" of the text
BraceSearch(text) ==
    LET opens == {i \in Positions(text, "{") :
                      \E j \in Positions(text, "}") : j > i}
    IN  IF opens = {} THEN [found |-> FALSE, group |-> <<>>]
        ELSE [found |-> TRUE,
              group |-> SubSeq(text, SetMin(opens), SetMax(Positions(text, "}")))]

\* product agent: parsed = json.loads(result)
ParseReplyStrict(a, text) ==
    LET direct == Loads(text)
    IN  IF direct.ok THEN [exc |-> "", v |-> direct.v]
        ELSE [exc |-> "JSONDecodeError", v |-> Null]

\* customer agent: json.loads(result); on JSONDecodeError the
\* regular-expression search and json.loads(match.group())
ParseReplyFallback(a, text) ==
    LET direct == Loads(text)
        match == BraceSearch(text)
        inner == Loads(match.group)
    IN  IF direct.ok THEN [exc |-> "", v |-> direct.v]
        ELSE IF ~match.found
             THEN [exc |-> "No JSON found in LLM response.", v |-> Null]
        ELSE IF inner.ok THEN [exc |-> "", v |-> inner.v]
        ELSE [exc |-> "JSONDecodeError", v |-> Null]

\* the parse step of the agent's own process_command
ParseReply(a, text) ==
    IF a = "CustomerAgent" THEN ParseReplyFallback(a, text)
    ELSE ParseReplyStrict(a, text)

\* response.content.strip() on the tokens of the reply
StripReply(text) ==
    LET keep == {i \in DOMAIN text : text[i].k # "ws"}
    IN  IF keep = {} THEN <<>> ELSE SubSeq(text, SetMin(keep), SetMax(keep))

\* except Exception as e: the generic result
Failed(a, st, call, args, exc) ==
    [st |-> st, call |-> call, args |-> args, ret |-> 0,
     result |-> Obj([status |-> Lit("error"),
                     action |-> Lit("parse_command"),
                     message |-> Fmt("Command failed: {}", Lit(exc))])]

\* call names the store method called ("none" when none was), args its
\* arguments and ret its return value
Outcome(st, call, args, ret, result) ==
    [st |-> st, call |-> call, args |-> args, ret |-> ret, result |-> result]

\* dispatch without the check of the id
IdMissingNever(idv) == FALSE

\* if not cust_id / if not prod_id
IdMissing(idv) == ~Truthy(idv)

\* intent == "add_customer" / "add_product"
DoAdd(a, st, params) ==
    IF params.t # "obj" THEN Failed(a, st, "none", <<>>, "AttributeError")
    ELSE LET raw == Get(params, "name", Str(<<>>))
             sec == Get(params, SecKey(a), Null)
         IN  IF raw.t # "str" THEN Failed(a, st, "none", <<>>, "AttributeError")
             ELSE LET name == strip(raw.s)
                      r == add_row(st, Str(name), sec)
                  IN  IF name = <<>>
                      THEN Failed(a, st, "none", <<>>, Cap(a) \o " name missing")
                      ELSE IF r.exc # "" THEN Failed(a, r.st, "add", <<Str(name), sec>>, r.exc)
                      ELSE Outcome(r.st, "add", <<Str(name), sec>>, r.ret,
                             Obj(("status" :> Lit("success"))
                                 @@ ("action" :> Lit("add_" \o Noun(a)))
                                 @@ ("message" :> Fmt(Cap(a) \o " \"{}\" added", Str(name)))
                                 @@ (Noun(a) :> Obj(("id" :> Num(r.ret))
                                                    @@ ("name" :> Str(name))
                                                    @@ (SecKey(a) :> sec)))))

FormatRow(a, r) ==
    Obj(("id" :> Num(r.id)) @@ ("name" :> r.name) @@ (SecKey(a) :> r.sec)
        @@ ("created_at" :> r.created_at))

\* intent == "list_customers" / "list_products"
DoList(a, st) ==
    LET rows == list_rows(st)
    IN  Outcome(st, "list", <<>>, Len(rows),
          Obj(("status" :> Lit("success"))
              @@ ("action" :> Lit("list_" \o Noun(a) \o "s"))
              @@ ("message" :> Fmt("Found {} " \o Noun(a) \o "(s)", Num(Len(rows))))
              @@ ((Noun(a) \o "s") :> Arr([i \in DOMAIN rows |-> FormatRow(a, rows[i])]))
              @@ ("count" :> Num(Len(rows)))))

Report(a, action, ok, text, idv) ==
    Obj([status |-> Lit(IF ok THEN "success" ELSE "error"),
         action |-> Lit(action \o "_" \o Noun(a)),
         message |-> Fmt(text, idv)])

\* intent == "delete_customer" / "delete_product"
DoDelete(a, st, params) ==
    IF params.t # "obj" THEN Failed(a, st, "none", <<>>, "AttributeError")
    ELSE LET idv == Get(params, "id", Null)
             r == delete_row(st, idv)
         IN  IF IdMissing(idv) THEN Failed(a, st, "none", <<>>, Cap(a) \o " ID missing")
             ELSE IF r.exc # "" THEN Failed(a, r.st, "delete", <<idv>>, r.exc)
             ELSE IF r.ret # 0
                  THEN Outcome(r.st, "delete", <<idv>>, r.ret,
                         Report(a, "delete", TRUE, Cap(a) \o " with ID {} deleted", idv))
             ELSE Outcome(r.st, "delete", <<idv>>, r.ret,
                    Report(a, "delete", FALSE, "No " \o Noun(a) \o " found with ID {}", idv))

\* intent == "update_customer" / "update_product"
DoUpdate(a, st, params) ==
    IF params.t # "obj" THEN Failed(a, st, "none", <<>>, "AttributeError")
    ELSE LET idv == Get(params, "id", Null)
             name == Get(params, "name", Null)
             sec == Get(params, SecKey(a), Null)
             r == update_row(st, idv, name, sec)
         IN  IF IdMissing(idv) THEN Failed(a, st, "none", <<>>, Cap(a) \o " ID missing")
             ELSE IF r.exc # "" THEN Failed(a, r.st, "update", <<idv, name, sec>>, r.exc)
             ELSE IF r.ret # 0
                  THEN Outcome(r.st, "update", <<idv, name, sec>>, r.ret,
                         Report(a, "update", TRUE, Cap(a) \o " with ID {} updated", idv))
             ELSE Outcome(r.st, "update", <<idv, name, sec>>, r.ret,
                    Report(a, "update", FALSE,
                           "No " \o Noun(a) \o " found with ID {} or nothing to update", idv))

Unknown(a, st) ==
    Outcome(st, "none", <<>>, 0,
            Obj([status |-> Lit("error"), action |-> Lit("unknown"),
                 message |-> Lit("Command not recognized")]))

\* the five-way dispatch on parsed.get("intent")
Dispatch(a, st, parsed) ==
    IF parsed.t # "obj" THEN Failed(a, st, "none", <<>>, "AttributeError")
    ELSE LET intent == Get(parsed, "intent", Null)
             params == Get(parsed, "parameters", EmptyObj)
         IN  IF intent = Lit("add_" \o Noun(a)) THEN DoAdd(a, st, params)
             ELSE IF intent = Lit("list_" \o Noun(a) \o "s") THEN DoList(a, st)
             ELSE IF intent = Lit("delete_" \o Noun(a)) THEN DoDelete(a, st, params)
             ELSE IF intent = Lit("update_" \o Noun(a)) THEN DoUpdate(a, st, params)
             ELSE Unknown(a, st)

\* process_command on the model's reply to the command: the new store, the
\* store call made, and the result
process_command(a, st, reply) ==
    LET parsed == ParseReply(a, StripReply(reply))
    IN  IF parsed.exc # "" THEN Failed(a, st, "none", <<>>, parsed.exc)
        ELSE Dispatch(a, st, parsed.v)

(***************************************************************************)
(* Agent Service: handle_task, the POST /task/send endpoint.               *)
(***************************************************************************)
RECURSIVE FirstTextPart(_)
\* for part in parts: if part['type'] == 'text': command = part['text']; break
FirstTextPart(parts) ==
    IF parts = <<>> THEN <<>>
    ELSE IF Head(parts).f["type"] = Lit("text") THEN Head(parts).f["text"].s
    ELSE FirstTextPart(Tail(parts))

\* the command handle_task passes to process_command
TaskCommand(data) ==
    IF "message" \in DOMAIN data.f /\ "parts" \in DOMAIN data.f["message"].f
    THEN FirstTextPart(data.f["message"].f["parts"].a)
    ELSE <<>>

\* a state that does not look at the result
TaskStateConst(result) == "completed"

\* "completed" if result['status'] == 'success' else "failed"
TaskState(result) ==
    IF result.f["status"] = Lit("success") THEN "completed" ELSE "failed"

\* the artifact text written with str(result): a Python repr, not JSON
ArtifactTextRepr(result) == <<Tok("junk")>>

\* json.dumps(result)
ArtifactText(result) == Dumps(result)

\* the A2A response built from the dispatcher's result
Envelope(data, result) ==
    Obj([id |-> Get(data, "id", Lit("uuid4")),
         status |-> Obj([state |-> Lit(TaskState(result)),
                         timestamp |-> Lit("now")]),
         artifacts |-> Arr(<<Obj([id |-> Lit("uuid4"),
                                  type |-> Lit("text"),
                                  parts |-> Arr(<<Obj([type |-> Lit("text"),
                                                       text |-> Text(ArtifactText(result))])>>)])>>)])

\* handle_task on request body data, with the model's reply to the command:
\* the new store, the dispatcher's outcome and the response dict
handle_task(a, st, data, reply) ==
    LET out == process_command(a, st, reply)
    IN  [st |-> out.st, command |-> TaskCommand(data), call |-> out.call,
         args |-> out.args, ret |-> out.ret, result |-> out.result,
         response |-> Envelope(data, out.result)]

\* jsonify(response): the body of the HTTP response
jsonify(response) == Dumps(response)

(***************************************************************************)
(* Router: src/a2a.py                                                      *)
(***************************************************************************)
agent_urls == <<"http://localhost:5001", "http://localhost:5002">>

\* the service that listens at a URL
ServiceAt(url) ==
    IF url = "http://localhost:5001" THEN "ProductAgent" ELSE "CustomerAgent"

UrlOf(a) == IF a = "ProductAgent" THEN agent_urls[1] ELSE agent_urls[2]

\* the Agent Card an agent serves at /.well-known/agent.json
agent_card(a) == [name |-> a, task_send |-> UrlOf(a) \o "/task/send"]

\* the service behind a task_send endpoint
ServiceBehind(endpoint) ==
    CHOOSE a \in Agents : agent_card(a).task_send = endpoint

\* route_command: keyword match on the lower-cased command
route_command(command) ==
    LET cmd_lower == lower(command)
    IN  IF Contains(cmd_lower, Chars("product")) THEN "ProductAgent"
        ELSE IF Contains(cmd_lower, Chars("customer")) THEN "CustomerAgent"
        ELSE NoAgent

\* extract_result_from_a2a_response: json.loads of the text of the first
\* part of the first artifact; {} when there is none or on any exception
extract_result_from_a2a_response(resp) ==
    IF resp.t # "obj" THEN EmptyObj
    ELSE LET artifacts == Get(resp, "artifacts", Arr(<<>>))
         IN  IF ~Truthy(artifacts) THEN EmptyObj
             ELSE IF artifacts.t # "arr" THEN EmptyObj
             ELSE IF artifacts.a[1].t # "obj" THEN EmptyObj
             ELSE LET parts == Get(artifacts.a[1], "parts", Arr(<<>>))
                  IN  IF ~Truthy(parts) THEN EmptyObj
                      ELSE IF parts.t # "arr" THEN EmptyObj
                      ELSE IF parts.a[1].t # "obj" THEN EmptyObj
                      ELSE LET text == Get(parts.a[1], "text", Text(Dumps(EmptyObj)))
                           IN  IF text.t # "text" THEN EmptyObj
                               ELSE IF Loads(text.toks).ok THEN Loads(text.toks).v
                               ELSE EmptyObj

(***************************************************************************)
(* Inputs                                                                  *)
(***************************************************************************)
\* marks a key that a JSON object does not carry
Absent == [t |-> "absent"]

\* the object with the members of f that are not Absent
Present(f) == Obj([k \in {x \in DOMAIN f : f[x] # Absent} |-> f[k]])

\* {"id": ..., "name": ..., "email"/"description": ...}
Params(a, idv, name, sec) ==
    Present(("id" :> idv) @@ ("name" :> name) @@ (SecKey(a) :> sec))

\* {"intent": ..., "parameters": ...}
Intent(intent, params) == Present([intent |-> intent, parameters |-> params])

Unbindable == Arr(<<Num(1)>>)

\* ids of delete intents: every id a row can have, and MaxId + 1
IdValues == {Absent, Null, Unbindable} \cup {Num(i) : i \in 0..(MaxId + 1)}

\* ids of update intents
UpdateIds == {Absent, Null, Unbindable, Num(0), Num(1), Num(MaxId + 1)}

AddObjects(a) ==
    {Intent(Lit("add_" \o Noun(a)), Params(a, Absent, name, Absent)) :
         name \in {Absent, Null, Str(<<>>), Str(Chars(" ")), Str(Chars("R")),
                   Str(Chars(" R "))}}
    \cup {Intent(Lit("add_" \o Noun(a)), Params(a, Absent, Str(Chars("R")), sec)) :
              sec \in {Null, Str(Chars("e")), Unbindable}}

ListObjects(a) == {Intent(Lit("list_" \o Noun(a) \o "s"), EmptyObj)}

DeleteObjects(a) ==
    {Intent(Lit("delete_" \o Noun(a)), Params(a, idv, Absent, Absent)) : idv \in IdValues}

UpdateFields ==
    {<<Absent, Absent>>, <<Str(Chars("N")), Absent>>, <<Absent, Str(Chars("e"))>>}

UpdateObjects(a) ==
    {Intent(Lit("update_" \o Noun(a)), Params(a, idv, ns[1], ns[2])) :
         idv \in UpdateIds, ns \in UpdateFields}
    \cup {Intent(Lit("update_" \o Noun(a)), Params(a, Num(1), ns[1], ns[2])) :
              ns \in {<<Null, Null>>, <<Str(<<>>), Absent>>,
                      <<Str(Chars("N")), Str(Chars("e"))>>, <<Absent, Unbindable>>}}

OtherObjects(a) ==
    {Intent(intent, EmptyObj) :
         intent \in {Absent, Null, Lit("help"),
                     Lit("add_" \o (IF a = "ProductAgent" THEN "customer" ELSE "product"))}}
    \cup {Intent(Lit(verb \o "_" \o Noun(a)), params) :
              verb \in {"add", "delete", "update"}, params \in {Absent, Null}}
    \cup {Intent(Lit("help"), Null)}

\* the JSON objects a model reply may carry
IntentObjects(a) ==
    AddObjects(a) \cup ListObjects(a) \cup DeleteObjects(a) \cup UpdateObjects(a)
    \cup OtherObjects(a)

\* objects that are also sent wrapped in other text
WrappedObjects(a) ==
    {Intent(Lit("add_" \o Noun(a)), Params(a, Absent, Str(Chars("R")), Absent)),
     Intent(Lit("delete_" \o Noun(a)), Params(a, Num(1), Absent, Absent)),
     Intent(Lit("help"), EmptyObj)}
    \cup ListObjects(a)

\* text before and after the object of a reply
Wrappers ==
    {<< <<Tok("ws")>>, <<Tok("ws")>> >>,
     << <<Tok("junk")>>, <<>> >>,
     << <<Tok("junk"), Tok("ws")>>, <<Tok("ws"), Tok("junk")>> >>,
     << <<>>, <<Tok("junk"), Tok("{"), Tok("}")>> >>,
     << <<Tok("{"), Tok("junk")>>, <<>> >>}

\* a model reply as the input of a request: the text before the object, the
\* object (Absent when the reply carries none) and the text after it
Replies(a) ==
    {[pre |-> <<>>, obj |-> o, post |-> <<>>] : o \in IntentObjects(a)}
    \cup {[pre |-> w[1], obj |-> o, post |-> w[2]] : o \in WrappedObjects(a), w \in Wrappers}
    \cup {[pre |-> pre, obj |-> Absent, post |-> <<>>] :
              pre \in {<<>>, <<Tok("junk")>>, <<Tok("{"), Tok("junk"), Tok("}")>>,
                       <<Tok("["), Tok("]")>>, <<Scalar(Num(1))>>}}

\* the text of a reply
ReplyText(r) == r.pre \o (IF r.obj = Absent THEN <<>> ELSE Dumps(r.obj)) \o r.post

\* the task send_task builds for a command
RouterTask(command) ==
    Obj([id |-> Lit("uuid4"),
         message |-> Obj([role |-> Lit("user"),
                          parts |-> Arr(<<Obj([type |-> Lit("text"),
                                               text |-> Str(command)])>>)]),
         timestamp |-> Lit("now")])

RouterError(msg) == Obj([error |-> msg])

\* what the agent side did for a request; Untouched when no agent ran
Untouched ==
    [agent |-> NoAgent, data |-> Null, reply |-> Null, command |-> <<>>,
     call |-> "none", args |-> <<>>, ret |-> 0, result |-> Null, response |-> Null]

Handled(a, data, reply, out) ==
    [agent |-> a, data |-> data, reply |-> reply, command |-> out.command,
     call |-> out.call, args |-> out.args, ret |-> out.ret, result |-> out.result,
     response |-> out.response]

\* send_task posting the task a second time when the first POST failed
Post_resend(st, target, command, http, reply) ==
    LET data == RouterTask(command)
        out == handle_task(target, st[target], data, ReplyText(reply))
        resp == Loads(jsonify(out.response)).v
    IN  IF http \in {"refused", "status"}
        THEN [st |-> st, posts |-> <<target, target>>, served |-> Untouched,
              answer |-> RouterError(Lit("ConnectionError"))]
        ELSE [st |-> [st EXCEPT ![target] = out.st], posts |-> <<target>>,
              served |-> Handled(target, data, reply, out),
              answer |-> Obj([a2a_response |-> resp,
                              extracted_result |-> extract_result_from_a2a_response(resp)])]

\* requests.post(endpoint, json=task) and what send_task makes of the
\* answer: http is the fate of the POST ("ok", "refused": requests raises,
\* "status": a non-200 answer), reply the model's reply inside the agent
Post(st, target, command, http, reply) ==
    LET data == RouterTask(command)
        out == handle_task(target, st[target], data, ReplyText(reply))
        resp == Loads(jsonify(out.response)).v
    IN  IF http = "refused"
        THEN [st |-> st, posts |-> <<target>>, served |-> Untouched,
              answer |-> RouterError(Lit("ConnectionError"))]
        ELSE IF http = "status"
        THEN [st |-> st, posts |-> <<target>>, served |-> Untouched,
              answer |-> RouterError(Lit("HTTP 500"))]
        ELSE [st |-> [st EXCEPT ![target] = out.st], posts |-> <<target>>,
              served |-> Handled(target, data, reply, out),
              answer |-> Obj([a2a_response |-> resp,
                              extracted_result |-> extract_result_from_a2a_response(resp)])]

\* send_task with the membership test on self.agents left out
send_task_unchecked(tbl, st, agent_name, command, http, reply) ==
    Post(st, agent_name, command, http, reply)

\* send_task: tbl is self.agents, st the stores of the agents; posts lists
\* the services a POST was sent to
send_task(tbl, st, agent_name, command, http, reply) ==
    IF agent_name \notin DOMAIN tbl
    THEN [st |-> st, posts |-> <<>>, served |-> Untouched,
          answer |-> RouterError(Fmt("Agent {} not found", Lit(agent_name)))]
    ELSE Post(st, ServiceBehind(tbl[agent_name].task_send), command, http, reply)

\* A2ARouter.process_command
router_process_command(tbl, st, command, http, reply) ==
    LET agent_name == route_command(command)
    IN  IF agent_name = NoAgent
        THEN [st |-> st, posts |-> <<>>, served |-> Untouched,
              answer |-> RouterError(Lit("No suitable agent found for command"))]
        ELSE send_task(tbl, st, agent_name, command, http, reply)

(***************************************************************************)
(* Requests of HTTP clients other than the router                          *)
(***************************************************************************)
Part(type, text) == Obj([type |-> Lit(type), text |-> Str(Chars(text))])

PartValues == {Part("text", "list"), Part("text", "add R"), Part("image", "png")}

PartLists == UNION {[1..n -> PartValues] : n \in 0..MaxParts}

\* request bodies of POST /task/send
Tasks ==
    {Obj([id |-> Lit("t1"), message |-> Obj([role |-> Lit("user"), parts |-> Arr(ps)])]) :
         ps \in PartLists}
    \cup {Obj([message |-> Obj([role |-> Lit("user"),
                                 parts |-> Arr(<<Part("text", "list")>>)])]),
          Obj([id |-> Lit("t1")]),
          Obj([id |-> Lit("t1"), message |-> Obj([role |-> Lit("user")])])}

\* replies paired with the tasks of Tasks
SampleReplies(a) == {[pre |-> <<>>, obj |-> o, post |-> <<>>] : o \in ListObjects(a)}

\* the (request body, model reply) pairs submitted to agent a
TaskInputs(a) ==
    ({RouterTask(Chars("go"))} \X Replies(a)) \cup (Tasks \X SampleReplies(a))

(***************************************************************************)
(* One agent process                                                       *)
(***************************************************************************)
\* main's loop before any line is read
AtPrompt ==
    [pc |-> "prompt", command |-> <<>>, sent |-> <<>>, answer |-> Null]

\* the request threads of one agent process
MaxReqs == 2

Reqs == 1..MaxReqs

\* a thread that handles no request; row is the id its INSERT created
NoRequest == [pc |-> "idle", name |-> <<>>, row |-> 0, ret |-> 0]

\* self.cursor = self.conn.cursor(): lastrowid is None (0) before any INSERT
NewCursor == [lastrowid |-> 0]

Idle ==
    [op |-> "none", line |-> <<>>, routed |-> NoAgent, posts |-> <<>>,
     answer |-> Null, served |-> Untouched]

\* the id in the result of a successful add, <<>> for any other result
IssuedBy(a, out) ==
    IF out.call = "add" /\ out.result.f["status"] = Lit("success")
    THEN <<out.result.f[Noun(a)].f["id"].i>>
    ELSE <<>>

AgentInit ==
    /\ self \in Agents
    /\ store = [a \in Agents |-> EmptyStore]
    /\ issued = [a \in Agents |-> <<>>]
    /\ agents = <<>>
    /\ phase = "discovering"
    /\ url_i = 1
    /\ last = Idle
    /\ gets = <<>>
    /\ loop = AtPrompt
    /\ reqs = [r \in Reqs |-> NoRequest]
    /\ cursor = NewCursor

\* POST /task/send handled by agent a
HandleTask(a, data, reply) ==
    \E out \in {handle_task(a, store[a], data, ReplyText(reply))} :
        /\ out.st.seq <= MaxId
        /\ store' = [store EXCEPT ![a] = out.st]
        /\ issued' = [issued EXCEPT ![a] = @ \o IssuedBy(a, out)]
        /\ last' = [Idle EXCEPT !.op = "task", !.served = Handled(a, data, reply, out)]
        /\ UNCHANGED <<agents, phase, url_i, self, gets, loop, reqs, cursor>>

AgentNext == \E in \in TaskInputs(self) : HandleTask(self, in[1], in[2])

AgentSpec == AgentInit /\ [][AgentNext]_vars

(***************************************************************************)
(* The classifier alone                                                    *)
(***************************************************************************)
\* str.upper()
upper(s) == [i \in DOMAIN s |-> UpperChar(s[i])]

\* s with the case of its k-th character changed
FlipAt(s, k) ==
    [s EXCEPT ![k] = IF @ \in Range(Upper) THEN LowerChar(@) ELSE UpperChar(@)]

\* s in other casings: all lower, all upper, one character changed
Recasings(s) == {lower(s), upper(s)} \cup {FlipAt(s, k) : k \in DOMAIN s}

RouteLines ==
    {Chars("List All PRODUCTS"), Chars("add Rahul to customers"),
     Chars("customer product"), Chars("Product of customer"),
     Chars("hello"), Chars("produc t"), Chars("custom"), Chars("q"),
     Chars("Update Customer 3"), Chars("products")}

\* the commands typed at the prompt
RouteCommands == RouteLines \cup UNION {Recasings(s) : s \in RouteLines}

RouteInit ==
    /\ self = NoAgent
    /\ store = [a \in Agents |-> EmptyStore]
    /\ issued = [a \in Agents |-> <<>>]
    /\ agents = <<>>
    /\ phase = "discovering"
    /\ url_i = 1
    /\ last = Idle
    /\ gets = <<>>
    /\ loop = AtPrompt
    /\ reqs = [r \in Reqs |-> NoRequest]
    /\ cursor = NewCursor

\* route_command applied to a command
Route(command) ==
    /\ last' = [Idle EXCEPT !.op = "route", !.line = command,
                            !.routed = route_command(command)]
    /\ UNCHANGED <<store, issued, agents, phase, url_i, self, gets, loop, reqs, cursor>>

RouteNext == \E command \in RouteCommands : Route(command)

RouteSpec == RouteInit /\ [][RouteNext]_vars

(***************************************************************************)
(* The whole system: the router and the two agent services                 *)
(***************************************************************************)
Init == RouteInit

\* discovery that gives up what it has registered when a GET fails
Discovered_or_dropped(tbl, url, http) ==
    IF http = "ok"
    THEN LET card == agent_card(ServiceAt(url))
         IN  (card.name :> card) @@ tbl
    ELSE <<>>

\* self.agents after the GET of the Agent Card at url: a 200 answer registers
\* the card under its name, a failure of either kind is only reported
Discovered(tbl, url, http) ==
    IF http = "ok"
    THEN LET card == agent_card(ServiceAt(url))
         IN  (card.name :> card) @@ tbl
    ELSE tbl

\* one iteration of the loop of discover_agents: the GET of the Agent Card
\* at the next URL succeeds (http = "ok"), raises or answers non-200
Discover(http) ==
    /\ phase = "discovering"
    /\ agents' = Discovered(agents, agent_urls[url_i], http)
    /\ url_i' = url_i + 1
    /\ phase' = IF url_i = Len(agent_urls) THEN "ready" ELSE "discovering"
    /\ last' = [Idle EXCEPT !.op = "discover"]
    /\ gets' = Append(gets, [url |-> agent_urls[url_i], http |-> http])
    /\ UNCHANGED <<store, issued, self, loop, reqs, cursor>>

QuitWords == {Chars("quit"), Chars("exit"), Chars("q")}

\* lines typed at the prompt
Lines ==
    {Chars("list products"), Chars("Add Rahul to CUSTOMERS"), Chars("hello"),
     Chars(" customer product "), Chars(" Quit"), Chars("q"), <<>>, Chars("  ")}

\* model replies inside the agent that serves a command
RouterReplies(a) ==
    {[pre |-> <<>>, obj |-> o, post |-> <<>>] :
         o \in ListObjects(a) \cup
               {Intent(Lit("add_" \o Noun(a)), Params(a, Absent, Str(Chars("R")), Absent)),
                Intent(Lit("delete_" \o Noun(a)), Params(a, Num(1), Absent, Absent))}}
    \cup {[pre |-> <<Tok("junk")>>, obj |-> Absent, post |-> <<>>]}

\* the fate of the POST of a command routed to a
Fates(a) ==
    {[http |-> h, reply |-> Null] : h \in {"refused", "status"}}
    \cup {[http |-> "ok", reply |-> r] :
              r \in RouterReplies(IF a \in Agents THEN a ELSE "ProductAgent")}

\* main: a line that is a quit word ends the loop
Quit(line) ==
    /\ phase = "ready"
    /\ lower(strip(line)) \in QuitWords
    /\ phase' = "exited"
    /\ last' = [Idle EXCEPT !.op = "quit", !.line = line]
    /\ UNCHANGED <<store, issued, agents, url_i, self, gets, loop, reqs, cursor>>

\* main: an empty line is skipped
Skip(line) ==
    /\ phase = "ready"
    /\ lower(strip(line)) \notin QuitWords
    /\ strip(line) = <<>>
    /\ last' = [Idle EXCEPT !.op = "skip", !.line = line]
    /\ UNCHANGED <<store, issued, agents, phase, url_i, self, gets, loop, reqs, cursor>>

\* main: any other line is processed by router.process_command, and the
\* agent it reaches handles the task before the next line is read
Command(line, fate) ==
    /\ phase = "ready"
    /\ lower(strip(line)) \notin QuitWords
    /\ strip(line) # <<>>
    /\ \E out \in {router_process_command(agents, store, strip(line),
                                          fate.http, fate.reply)} :
           /\ \A a \in Agents : out.st[a].seq <= MaxId
           /\ store' = out.st
           /\ issued' = IF out.served.agent \in Agents
                        THEN [issued EXCEPT ![out.served.agent] =
                                  @ \o IssuedBy(out.served.agent, out.served)]
                        ELSE issued
           /\ last' = [op |-> "command", line |-> line,
                       routed |-> route_command(strip(line)),
                       posts |-> out.posts, answer |-> out.answer,
                       served |-> out.served]
    /\ UNCHANGED <<agents, phase, url_i, self, gets, loop, reqs, cursor>>

Next ==
    \/ \E http \in {"ok", "refused", "status"} : Discover(http)
    \/ \E line \in Lines : Quit(line)
    \/ \E line \in Lines : Skip(line)
    \/ \E line \in Lines : \E fate \in Fates(route_command(strip(line))) :
           Command(line, fate)

Spec == Init /\ [][Next]_vars

(***************************************************************************)
(* The router's loop, step by step: a command is read and submitted, then  *)
(* the router stays in process_command until the POST has met its fate     *)
(***************************************************************************)
\* the service the POST of a command goes to, NoAgent when process_command
\* returns before requests.post
Reaches(tbl, command) ==
    LET agent_name == route_command(command)
    IN  IF agent_name = NoAgent \/ agent_name \notin DOMAIN tbl
        THEN NoAgent
        ELSE ServiceBehind(tbl[agent_name].task_send)

\* main reads a line that is a command and calls router.process_command,
\* which issues the POST when the command reaches a service
Submit(line) ==
    /\ phase = "ready"
    /\ loop.pc = "prompt"
    /\ lower(strip(line)) \notin QuitWords
    /\ strip(line) # <<>>
    /\ loop' = [pc |-> "processing", command |-> strip(line),
                sent |-> IF Reaches(agents, strip(line)) = NoAgent
                         THEN <<>>
                         ELSE <<Reaches(agents, strip(line))>>,
                answer |-> Null]
    /\ last' = [Idle EXCEPT !.op = "read", !.line = line,
                            !.routed = route_command(strip(line))]
    /\ UNCHANGED <<store, issued, agents, phase, url_i, self, gets, reqs, cursor>>

\* process_command returns, after the POST has met its fate if one was
\* issued: sent becomes the POSTs the call has issued by its return
Deliver(fate) ==
    /\ loop.pc = "processing"
    /\ fate \in Fates(route_command(loop.command))
    /\ \E out \in {router_process_command(agents, store, loop.command,
                                          fate.http, fate.reply)} :
           /\ \A a \in Agents : out.st[a].seq <= MaxId
           /\ store' = out.st
           /\ issued' = IF out.served.agent \in Agents
                        THEN [issued EXCEPT ![out.served.agent] =
                                  @ \o IssuedBy(out.served.agent, out.served)]
                        ELSE issued
           /\ loop' = [pc |-> "prompt", command |-> loop.command,
                       sent |-> out.posts, answer |-> out.answer]
           /\ last' = [op |-> "command", line |-> loop.command,
                       routed |-> route_command(loop.command),
                       posts |-> out.posts, answer |-> out.answer,
                       served |-> out.served]
    /\ UNCHANGED <<agents, phase, url_i, self, gets, reqs, cursor>>

\* main reads a quit word
LoopQuit(line) == loop.pc = "prompt" /\ Quit(line)

\* main reads an empty line
LoopSkip(line) == loop.pc = "prompt" /\ Skip(line)

LoopNext ==
    \/ \E http \in {"ok", "refused", "status"} : Discover(http)
    \/ \E line \in Lines : LoopQuit(line)
    \/ \E line \in Lines : LoopSkip(line)
    \/ \E line \in Lines : Submit(line)
    \/ \E a \in Agents : \E fate \in Fates(a) : Deliver(fate)

LoopSpec == Init /\ [][LoopNext]_vars

(***************************************************************************)
(* One agent process serving add requests on several threads: app.run      *)
(* serves each request on a thread of its own, and every thread calls      *)
(* add_customer / add_product on the one self.conn and self.cursor         *)
(***************************************************************************)
\* names the model asks to add
AddNames == {Chars("R"), Chars("N")}

\* a request reaches add_customer / add_product with a validated name
Arrive(r, name) ==
    /\ reqs[r].pc = "idle"
    /\ reqs' = [reqs EXCEPT ![r] = [pc |-> "insert", name |-> name,
                                     row |-> 0, ret |-> 0]]
    /\ UNCHANGED <<store, issued, agents, phase, url_i, last, self, gets, loop, cursor>>

\* self.cursor.execute('INSERT ...'): the row gets the next id and the
\* shared cursor's lastrowid becomes that id
Insert(r) ==
    /\ reqs[r].pc = "insert"
    /\ \E out \in {add_row(store[self], Str(reqs[r].name), Null)} :
           /\ out.st.seq <= MaxId
           /\ store' = [store EXCEPT ![self] = out.st]
           /\ cursor' = [lastrowid |-> out.ret]
           /\ reqs' = [reqs EXCEPT ![r].pc = "commit", ![r].row = out.ret]
    /\ UNCHANGED <<issued, agents, phase, url_i, last, self, gets, loop>>

\* self.conn.commit()
Commit(r) ==
    /\ reqs[r].pc = "commit"
    /\ reqs' = [reqs EXCEPT ![r].pc = "read"]
    /\ UNCHANGED <<store, issued, agents, phase, url_i, last, self, gets, loop, cursor>>

\* return self.cursor.lastrowid: the id placed in the request's result
ReadId(r) ==
    /\ reqs[r].pc = "read"
    /\ reqs' = [reqs EXCEPT ![r].pc = "done", ![r].ret = cursor.lastrowid]
    /\ issued' = [issued EXCEPT ![self] = Append(@, cursor.lastrowid)]
    /\ UNCHANGED <<store, agents, phase, url_i, last, self, gets, loop, cursor>>

ConcNext ==
    \E r \in Reqs :
        \/ \E name \in AddNames : Arrive(r, name)
        \/ Insert(r)
        \/ Commit(r)
        \/ ReadId(r)

ConcSpec == AgentInit /\ [][ConcNext]_vars

(***************************************************************************)
(* Properties of one agent process (AgentSpec)                             *)
(***************************************************************************)
\* the request handled by the step into the current state
Served == last.served

IsTask == last.op = "task"

RowIds(st) == {st.rows[i].id : i \in DOMAIN st.rows}

\* C1: in each store the id returned by a successful add is strictly
\* greater than every id returned by an earlier add, so no id is issued
\* twice, also not after the row that held it was deleted
C1_IdsStrictlyIncrease ==
    \A a \in Agents : \A i, j \in DOMAIN issued[a] :
        i < j => issued[a][i] < issued[a][j]

\* an add that followed the deletion of the only row, which held id 1
C1_Witness ==
    /\ IsTask /\ Served.call = "add"
    /\ issued[self] = <<1, 2>>
    /\ RowIds(store[self]) = {2}

\* the object of the reply when the reply is that object and nothing else
CleanObject == IF Served.reply.pre = <<>> /\ Served.reply.post = <<>>
               THEN Served.reply.obj ELSE Absent

\* the intent of that object is verb_customer / verb_product
CleanIntent(verb) ==
    /\ IsTask /\ CleanObject # Absent
    /\ "intent" \in DOMAIN CleanObject.f
    /\ CleanObject.f["intent"] = Lit(verb \o "_" \o Noun(Served.agent))

\* the value of a parameter of that object, Absent when it has none
CleanParam(key) ==
    IF "parameters" \notin DOMAIN CleanObject.f THEN Absent
    ELSE IF CleanObject.f["parameters"].t # "obj" THEN Absent
    ELSE IF key \notin DOMAIN CleanObject.f["parameters"].f THEN Absent
    ELSE CleanObject.f["parameters"].f[key]

Status(result) == result.f["status"].y

Action(result) == result.f["action"].y

\* C2: update called with neither the name nor the secondary field returns
\* 0 rows affected and leaves the store as it was, whatever the id
C2_EmptyUpdateIsNoOp ==
    [][(/\ last'.op = "task" /\ last'.served.call = "update"
        /\ last'.served.args[2] = Null /\ last'.served.args[3] = Null)
       => (last'.served.ret = 0 /\ store' = store)]_vars

\* update was called without fields for the id of a row of the store
C2_Witness ==
    /\ IsTask /\ Served.call = "update"
    /\ Served.args[2] = Null /\ Served.args[3] = Null
    /\ Served.args[1].t = "int" /\ Served.args[1].i \in RowIds(store[self])
    /\ Served.ret = 0

NotFoundTexts(a) ==
    {"No " \o Noun(a) \o " found with ID {}",
     "No " \o Noun(a) \o " found with ID {} or nothing to update"}

\* the result is the "not found" result of verb_customer / verb_product
IsNotFound(a, verb, result) ==
    /\ Status(result) = "error"
    /\ Action(result) = verb \o "_" \o Noun(a)
    /\ result.f["message"].t = "fmt"
    /\ result.f["message"].y \in NotFoundTexts(a)

\* C3: a delete or update intent carrying an (integer) id that no row of
\* the store has yields the "not found" result of that action and leaves
\* the store unchanged, never the generic 'Command failed' result
C3_AbsentIdIsNotFound ==
    [][\A verb \in {"delete", "update"} :
         (/\ CleanIntent(verb)' /\ CleanParam("id")'.t = "int"
          /\ \A id \in RowIds(store[last'.served.agent]) :
                 ~(CleanParam("id")' = Num(id)))
         => (/\ IsNotFound(last'.served.agent, verb, last'.served.result)
             /\ store' = store)]_vars

\* C9: add without a name and delete or update without an id give an
\* error result, call no store method and leave the store unchanged; an
\* intent that is none of add, list, delete, update gives the 'unknown'
\* result and leaves the store unchanged
C9_ValidationAndUnknown ==
    [][/\ (CleanIntent("add")' /\ CleanParam("name")' = Absent)
          => (/\ Status(last'.served.result) = "error"
              /\ last'.served.call = "none" /\ store' = store)
       /\ \A verb \in {"delete", "update"} :
            (CleanIntent(verb)' /\ CleanParam("id")' = Absent)
            => (/\ Status(last'.served.result) = "error"
                /\ last'.served.call = "none" /\ store' = store)
       /\ (/\ IsTask' /\ CleanObject' # Absent
           /\ ~CleanIntent("add")' /\ ~CleanIntent("delete")'
           /\ ~CleanIntent("update")'
           /\ ~(/\ "intent" \in DOMAIN CleanObject'.f
                /\ CleanObject'.f["intent"] = Lit("list_" \o Noun(last'.served.agent) \o "s")))
          => (/\ Status(last'.served.result) = "error"
              /\ Action(last'.served.result) = "unknown"
              /\ last'.served.call = "none" /\ store' = store)]_vars

\* a delete intent without an id was refused while the store held a row
C9_Witness ==
    /\ CleanIntent("delete") /\ CleanParam("id") = Absent
    /\ "parameters" \in DOMAIN CleanObject.f
    /\ Status(Served.result) = "error" /\ Served.call = "none"
    /\ store[self].rows # <<>>

\* t is s without its leading and trailing whitespace
IsTrimOf(t, s) ==
    \E i, j \in 0..Len(s) :
        /\ i + j <= Len(s)
        /\ t = SubSeq(s, i + 1, Len(s) - j)
        /\ \A k \in 1..i : s[k] \in Whitespace
        /\ \A k \in (Len(s) - j + 1)..Len(s) : s[k] \in Whitespace
        /\ t # <<>> => (t[1] \notin Whitespace /\ t[Len(t)] \notin Whitespace)

\* one more than the largest id in a log of issued ids
NextAvailable(log) ==
    IF log = <<>> THEN 1 ELSE SetMax({log[i] : i \in DOMAIN log}) + 1

\* the step added a row called name: the result is a success that carries
\* name and the next available id, the row with that id and name is new in
\* the store, and a list of the new store shows it
AddedAs(name) ==
    LET a == last'.served.agent
        result == last'.served.result
        id == NextAvailable(issued[a])
        listed == DoList(a, store'[a]).result.f[Noun(a) \o "s"].a
    IN  /\ Status(result) = "success"
        /\ result.f[Noun(a)].f["name"] = Str(name)
        /\ result.f[Noun(a)].f["id"] = Num(id)
        /\ id \notin RowIds(store[a])
        /\ \E i \in DOMAIN store'[a].rows :
               store'[a].rows[i].id = id /\ store'[a].rows[i].name = Str(name)
        /\ \E i \in DOMAIN listed :
               listed[i].f["id"] = Num(id) /\ listed[i].f["name"] = Str(name)

\* C7 as stated: an add intent with a non-empty name yields a success
\* result with that name and the next available id, the id of the inserted
\* row, which a list then shows with that name
C7_AddNonEmptyName ==
    [][(/\ CleanIntent("add")' /\ CleanParam("name")'.t = "str"
        /\ CleanParam("name")'.s # <<>>)
       => AddedAs(CleanParam("name")'.s)]_vars

\* C7 amended: an add intent whose name is a string that is non-empty
\* after stripping whitespace, and whose email/description is absent, null
\* or a string, yields a success result with the stripped name and the next
\* available id, the id of the inserted row, which a list then shows with
\* the stripped name
C7_AddStrippedName ==
    [][(/\ CleanIntent("add")' /\ CleanParam("name")'.t = "str"
        /\ ~IsTrimOf(<<>>, CleanParam("name")'.s)
        /\ CleanParam(SecKey(Served.agent))'.t \in {"absent", "null", "str"})
       => \E i, j \in 0..Len(CleanParam("name")'.s) :
              LET t == SubSeq(CleanParam("name")'.s, i + 1, Len(CleanParam("name")'.s) - j)
              IN  IsTrimOf(t, CleanParam("name")'.s) /\ AddedAs(t)]_vars

\* a padded name was added, stripped, as the second row of a store whose
\* first row had been deleted
C7_Witness ==
    /\ CleanIntent("add") /\ CleanParam("name") = Str(Chars(" R "))
    /\ Status(Served.result) = "success"
    /\ Served.result.f[Noun(self)].f["name"] = Str(Chars("R"))
    /\ Served.result.f[Noun(self)].f["id"] = Num(2)
    /\ RowIds(store[self]) = {2}

\* the parts of the message of a request body, <<>> when it has none
MessageParts(data) ==
    IF "message" \in DOMAIN data.f /\ "parts" \in DOMAIN data.f["message"].f
    THEN data.f["message"].f["parts"].a
    ELSE <<>>

TextParts(data) ==
    {i \in DOMAIN MessageParts(data) : MessageParts(data)[i].f["type"] = Lit("text")}

\* C8: the response to a task has state 'completed' exactly when the
\* dispatcher's result has status 'success' and 'failed' otherwise; it has
\* exactly one artifact, of type text, with one text part whose text is the
\* serialized result; the command dispatched is the text of the first part
\* of type 'text' of the message (the empty command when there is none)
C8_Envelope ==
    IsTask =>
        LET resp == Served.response
            arts == resp.f["artifacts"].a
        IN  /\ resp.f["status"].f["state"] =
                   Lit(IF Status(Served.result) = "success" THEN "completed" ELSE "failed")
            /\ Len(arts) = 1
            /\ arts[1].f["type"] = Lit("text")
            /\ Len(arts[1].f["parts"].a) = 1
            /\ arts[1].f["parts"].a[1].f["type"] = Lit("text")
            /\ arts[1].f["parts"].a[1].f["text"] = Text(Dumps(Served.result))
            /\ IF TextParts(Served.data) = {} THEN Served.command = <<>>
               ELSE Served.command =
                        MessageParts(Served.data)[SetMin(TextParts(Served.data))].f["text"].s

\* a task whose first part is not text and whose second part is: the
\* command is the text of the second part, and the task completed
C8_Witness ==
    /\ IsTask
    /\ Len(MessageParts(Served.data)) = 2 /\ TextParts(Served.data) = {2}
    /\ Served.command = Chars("add R")
    /\ Served.response.f["status"].f["state"] = Lit("completed")

\* C6: the result of process_command, wrapped by handle_task into the
\* artifact text of the response and sent as the HTTP body, is what the
\* router's extract_result_from_a2a_response returns from the parsed body
C6_RoundTrip ==
    IsTask =>
        extract_result_from_a2a_response(Loads(jsonify(Served.response)).v)
            = Served.result

\* the round trip of a list result with two rows
C6_Witness ==
    /\ IsTask /\ Served.call = "list" /\ Served.ret = 2
    /\ extract_result_from_a2a_response(Loads(jsonify(Served.response)).v).f["count"]
           = Num(2)

\* C10: a reply that is not a JSON document but contains a JSON object is
\* dispatched, in both agents, exactly as the object alone would be
C10_FallbackToEmbeddedObject ==
    [][(/\ IsTask' /\ last'.served.reply.obj # Absent
        /\ ~Loads(StripReply(ReplyText(last'.served.reply))).ok)
       => LET a == last'.served.agent
              alone == process_command(a, store[a], Dumps(last'.served.reply.obj))
          IN  last'.served.result = alone.result /\ store'[a] = alone.st]_vars

(***************************************************************************)
(* Properties of the classifier (RouteSpec) and of the system (Spec)       *)
(***************************************************************************)
\* s contains the lower-case keyword kw with each letter in either case
ContainsAnyCase(s, kw) ==
    \E i \in 1..(Len(s) - Len(kw) + 1) :
        \A k \in DOMAIN kw : s[i + k - 1] \in {kw[k], UpperChar(kw[k])}

\* C4: classification is case-insensitive substring matching: a command
\* and its other casings get the same result; a command containing
\* "product" in any casing goes to ProductAgent, one containing "customer"
\* and not "product" to CustomerAgent, one containing neither to no agent
C4_CaseInsensitiveRouting ==
    last.op = "route" =>
        /\ \A other \in Recasings(last.line) : route_command(other) = last.routed
        /\ last.routed =
               IF ContainsAnyCase(last.line, Chars("product")) THEN "ProductAgent"
               ELSE IF ContainsAnyCase(last.line, Chars("customer")) THEN "CustomerAgent"
               ELSE NoAgent

\* "List All PRODUCTS" was routed to the product agent
C4_Witness ==
    /\ last.op = "route" /\ last.line = Chars("List All PRODUCTS")
    /\ last.routed = "ProductAgent"

\* C5: a command that matches no keyword, or whose agent is not in the
\* table of discovered agents, gets a local error object; no POST is sent,
\* no agent handles anything and no store changes
C5_LocalErrorWithoutContact ==
    [][(/\ last'.op = "command"
        /\ (last'.routed = NoAgent \/ last'.routed \notin DOMAIN agents))
       => (/\ DOMAIN last'.answer.f = {"error"}
           /\ last'.posts = <<>>
           /\ last'.served = Untouched
           /\ store' = store)]_vars

\* a customer command was refused locally by a router that had discovered
\* only the product agent
C5_Witness ==
    /\ last.op = "command" /\ last.routed = "CustomerAgent"
    /\ DOMAIN agents = {"ProductAgent"}
    /\ last.posts = <<>> /\ DOMAIN last.answer.f = {"error"}

(***************************************************************************)
(* Properties of the router's loop (LoopSpec)                              *)
(***************************************************************************)
\* the command the loop holds has its response or its error
Resolved(lp) ==
    /\ lp.pc = "prompt"
    /\ \/ lp.command = <<>>
       \/ /\ lp.answer.t = "obj"
          /\ \/ "error" \in DOMAIN lp.answer.f
             \/ "a2a_response" \in DOMAIN lp.answer.f

\* C11: a line is read only when the command before it is resolved; a
\* command has at most one POST, sent to the service of the agent it was
\* routed to; and the step that ends the processing of a command resolves
\* it without another POST, into an error and with the stores untouched
\* when no agent handled it.
C11_OneSubmissionPerCommand ==
    [][/\ last'.op \in {"read", "quit", "skip"} => Resolved(loop)
       /\ Len(loop'.sent) <= 1
       /\ loop'.sent # <<>> =>
              /\ route_command(loop'.command) \in DOMAIN agents'
              /\ loop'.sent =
                     <<ServiceBehind(agents'[route_command(loop'.command)].task_send)>>
       /\ loop.pc = "processing" =>
              /\ Resolved(loop')
              /\ loop'.command = loop.command
              /\ loop'.sent = loop.sent
              /\ last'.served = Untouched =>
                     /\ "error" \in DOMAIN loop'.answer.f
                     /\ store' = store]_vars

\* a command whose only POST failed stands resolved into an error
C11_Witness ==
    /\ phase = "ready"
    /\ last.op = "command"
    /\ last.served = Untouched
    /\ loop.pc = "prompt"
    /\ Len(loop.sent) = 1
    /\ "error" \in DOMAIN loop.answer.f

(***************************************************************************)
(* Properties of discovery (Spec)                                          *)
(***************************************************************************)
\* the agents whose GET was answered with 200
Answered(gs) == {agent_card(ServiceAt(gs[i].url)).name : i \in {j \in DOMAIN gs : gs[j].http = "ok"}}

\* the GETs issued are the first URLs of agent_urls, one each and in order;
\* the router leaves discovery exactly when every URL had its GET, whatever
\* their fates; the table holds exactly the agents whose GET succeeded
DiscoveryDone ==
    /\ Len(gets) <= Len(agent_urls)
    /\ \A i \in DOMAIN gets : gets[i].url = agent_urls[i]
    /\ phase # "discovering" <=> Len(gets) = Len(agent_urls)
    /\ DOMAIN agents = Answered(gets)

\* C12: discovery issues one GET per URL of agent_urls, in order; a failed
\* GET leaves the other agent registered and the router reaches the ready
\* state after the last GET whatever the fates; once discovery is over no
\* step issues a GET or changes the table; and a command routed to an
\* agent missing from the table gets the 'not found' error without a POST.
C12_DiscoveryOneShot ==
    [][/\ DiscoveryDone
       /\ DiscoveryDone'
       /\ phase # "discovering" => agents' = agents /\ gets' = gets
       /\ (last'.op = "command" /\ last'.routed \in Agents \ DOMAIN agents) =>
              /\ last'.posts = <<>>
              /\ last'.answer =
                     RouterError(Fmt("Agent {} not found", Lit(last'.routed)))]_vars

\* the first GET failed, the second agent is registered, and a command for
\* the agent that was unreachable at startup is answered 'not found'
C12_Witness ==
    /\ phase = "ready"
    /\ Len(gets) = 2
    /\ gets[1].http # "ok"
    /\ gets[2].http = "ok"
    /\ DOMAIN agents = {"CustomerAgent"}
    /\ last.op = "command"
    /\ last.routed = "ProductAgent"
    /\ last.answer = RouterError(Fmt("Agent {} not found", Lit("ProductAgent")))

(***************************************************************************)
(* Properties of concurrent adds (ConcSpec)                                *)
(***************************************************************************)
\* C13: of the add requests one agent process handles concurrently, each
\* finished one returns the id of the row its own INSERT created, and no
\* two finished ones return the same id.
C13_ConcurrentAddsOwnIds ==
    \A r \in Reqs :
        reqs[r].pc = "done" =>
            /\ reqs[r].ret = reqs[r].row
            /\ \A q \in Reqs \ {r} :
                   reqs[q].pc = "done" => reqs[q].ret # reqs[r].ret

(***************************************************************************)
(* Properties of the rows of one agent (AgentSpec)                         *)
(***************************************************************************)
\* C14: whatever adds, updates and deletes an agent has dispatched, no row
\* of its store has the empty string as its name.
C14_NamesNonEmpty ==
    \A a \in Agents :
        \A i \in DOMAIN store[a].rows : store[a].rows[i].name # Str(<<>>)

====
